---- MODULE Spec2Model ----
(***************************************************************************)
(* django_encrypted_fields/models.py: BaseEncryptedField (the key ring),  *)
(* EncryptedTextField and EncryptedJSONField (the selective structured    *)
(* encryptor), with the storage boundary and the clean() hook.            *)
(*                                                                         *)
(* A Python str is a sequence of characters; a character is a TLA+ string *)
(* (a letter, a JSON punctuation mark, a literal such as "true").         *)
(* A Python value is a one-field record whose field name is its type.     *)
(* A call's outcome is [ok |-> value] or [err |-> exception class].       *)
(***************************************************************************)
EXTENDS Integers, Sequences, FiniteSets, TLC

\* ------------------------------------------------------------- bounds
\* Nesting depth of the Structured Values that are sealed.
MaxDepth == 3
\* Number of key rotations (process restarts with a new first key).
MaxRotations == 2
\* Number of threads that use the field at the same time.
MaxThreads == 2

\* ------------------------------------------------------ Python values
None     == [none |-> "None"]
Bool(b)  == [bool |-> b]
Num(n)   == [num |-> n]
Str(s)   == [str |-> s]
List(xs) == [list |-> xs]
Dict(f)  == [dict |-> f]

IsNone(v) == "none" \in DOMAIN v
IsBool(v) == "bool" \in DOMAIN v
IsNum(v)  == "num" \in DOMAIN v
IsStr(v)  == "str" \in DOMAIN v
IsList(v) == "list" \in DOMAIN v
IsDict(v) == "dict" \in DOMAIN v

Ok(v)    == [ok |-> v]
Err(e)   == [err |-> e]
IsOk(r)  == "ok" \in DOMAIN r
IsErr(r) == "err" \in DOMAIN r

EmptyDict == [k \in {} |-> None]

\* The order in which a mapping's entries are visited.  Python visits them
\* in insertion order; the model's mappings are inserted in this order.
KeyOrder == << <<"s">>, <<"p">>, <<"o">> >>

KeysOf(f) == SelectSeq(KeyOrder, LAMBDA k : k \in DOMAIN f)

\* ------------------------------------------------------------- Fernet
\* Fernet(key).encrypt(bytes): an authenticated token bound to the key.  The
\* token starts with the version mark ("gA" is how the base64 of 0x80
\* begins), carries the key that authenticates it, and then the payload.
\* The IV and the timestamp are not modelled: no code of the fields reads them.
FernetEncrypt(k, s) == <<"gA", k>> \o s

\* Fernet(key).decrypt(bytes): the payload when the token is authentic under
\* this key, InvalidToken for anything else.
FernetDecrypt(k, t) ==
    IF Len(t) >= 2 /\ t[1] = "gA" /\ t[2] = k
    THEN Ok(SubSeq(t, 3, Len(t)))
    ELSE Err("InvalidToken")

\* -------------------------------------------------------- json.dumps
Digits == <<"0", "1", "2", "3", "4", "5", "6", "7", "8", "9">>

Escape(s) ==
    [i \in 1..Len(s) |->
        IF s[i] = "\"" THEN "\\\""
        ELSE IF s[i] = "\\" THEN "\\\\"
        ELSE s[i]]

Unescape(s) ==
    [i \in 1..Len(s) |->
        IF s[i] = "\\\"" THEN "\""
        ELSE IF s[i] = "\\\\" THEN "\\"
        ELSE s[i]]

Quote(s) == <<"\"">> \o Escape(s) \o <<"\"">>

RECURSIVE JsonDumps(_)
RECURSIVE DumpItems(_)
RECURSIVE DumpMembers(_, _)

\* json.dumps(value): the JSON text of a value, "," and ":" standing for the
\* separators ", " and ": ".
JsonDumps(v) ==
    IF IsNone(v) THEN <<"null">>
    ELSE IF IsBool(v) THEN <<IF v.bool THEN "true" ELSE "false">>
    ELSE IF IsNum(v) THEN <<Digits[v.num + 1]>>
    ELSE IF IsStr(v) THEN Quote(v.str)
    ELSE IF IsList(v) THEN <<"[">> \o DumpItems(v.list) \o <<"]">>
    ELSE <<"{">> \o DumpMembers(v.dict, KeysOf(v.dict)) \o <<"}">>

DumpItems(xs) ==
    IF xs = <<>> THEN <<>>
    ELSE IF Len(xs) = 1 THEN JsonDumps(xs[1])
    ELSE JsonDumps(xs[1]) \o <<",">> \o DumpItems(Tail(xs))

DumpMembers(f, ks) ==
    IF ks = <<>> THEN <<>>
    ELSE LET m == Quote(ks[1]) \o <<":">> \o JsonDumps(f[ks[1]])
         IN  IF Len(ks) = 1 THEN m
             ELSE m \o <<",">> \o DumpMembers(f, Tail(ks))

\* -------------------------------------------------------- json.loads
Fail == [fail |-> "JSONDecodeError"]
Failed(p) == "fail" \in DOMAIN p

DigitValue(c) == (CHOOSE i \in 1..Len(Digits) : Digits[i] = c) - 1
IsDigit(c) == \E i \in 1..Len(Digits) : Digits[i] = c

RECURSIVE ParseValue(_)
RECURSIVE ParseElements(_, _)
RECURSIVE ParseMembers(_, _)

\* The JSON decoder's scanner: the value that starts the text, and the rest.
ParseValue(s) ==
    IF s = <<>> THEN Fail
    ELSE LET c == Head(s)
             r == Tail(s)
         IN  IF c = "null" THEN [v |-> None, rest |-> r]
             ELSE IF c = "true" THEN [v |-> Bool(TRUE), rest |-> r]
             ELSE IF c = "false" THEN [v |-> Bool(FALSE), rest |-> r]
             ELSE IF IsDigit(c) THEN [v |-> Num(DigitValue(c)), rest |-> r]
             ELSE IF c = "\"" THEN
                 LET closing == {j \in 1..Len(r) : r[j] = "\""}
                 IN  IF closing = {} THEN Fail
                     ELSE LET j == CHOOSE x \in closing : \A y \in closing : x <= y
                          IN  [v |-> Str(Unescape(SubSeq(r, 1, j - 1))),
                               rest |-> SubSeq(r, j + 1, Len(r))]
             ELSE IF c = "[" THEN
                 IF r # <<>> /\ Head(r) = "]"
                 THEN [v |-> List(<<>>), rest |-> Tail(r)]
                 ELSE ParseElements(r, <<>>)
             ELSE IF c = "{" THEN
                 IF r # <<>> /\ Head(r) = "}"
                 THEN [v |-> Dict(EmptyDict), rest |-> Tail(r)]
                 ELSE ParseMembers(r, EmptyDict)
             ELSE Fail

ParseElements(s, acc) ==
    LET p == ParseValue(s)
    IN  IF Failed(p) \/ p.rest = <<>> THEN Fail
        ELSE IF Head(p.rest) = "," THEN ParseElements(Tail(p.rest), Append(acc, p.v))
        ELSE IF Head(p.rest) = "]" THEN [v |-> List(Append(acc, p.v)), rest |-> Tail(p.rest)]
        ELSE Fail

ParseMembers(s, acc) ==
    LET k == ParseValue(s)
    IN  IF Failed(k) \/ ~IsStr(k.v) \/ k.rest = <<>> \/ Head(k.rest) # ":" THEN Fail
        ELSE LET p == ParseValue(Tail(k.rest))
             IN  IF Failed(p) \/ p.rest = <<>> THEN Fail
                 ELSE LET f == [x \in DOMAIN acc \cup {k.v.str} |->
                                   IF x = k.v.str THEN p.v ELSE acc[x]]
                      IN  IF Head(p.rest) = "," THEN ParseMembers(Tail(p.rest), f)
                          ELSE IF Head(p.rest) = "}" THEN [v |-> Dict(f), rest |-> Tail(p.rest)]
                          ELSE Fail

\* json.loads(text): the value, or JSONDecodeError when the text is not
\* exactly one JSON value.
JsonLoads(s) ==
    LET p == ParseValue(s)
    IN  IF Failed(p) \/ p.rest # <<>> THEN Err("JSONDecodeError") ELSE Ok(p.v)

\* ------------------------------------------------ BaseEncryptedField
\* self.fernet_keys is the key ring `ring`, a non-empty sequence of keys.

\* _encrypt(value): bytes(value, "utf-8") raises TypeError unless value is a
\* str; the token is made with fernet_keys[0].
_encrypt(ring, value) ==
    IF ~IsStr(value) THEN Err("TypeError")
    ELSE Ok(Str(FernetEncrypt(ring[1], value.str)))

RECURSIVE TryKeys(_, _, _)
\* The for loop of _decrypt from the i-th key on.
TryKeys(ring, i, value) ==
    IF i > Len(ring) THEN Err("ValueError")
    ELSE IF ~IsStr(value) THEN Err("TypeError")
    ELSE LET r == FernetDecrypt(ring[i], value.str)
         IN  IF IsOk(r) THEN Ok(Str(r.ok)) ELSE TryKeys(ring, i + 1, value)

\* Faulty variant: _decrypt that tries fernet_keys[0] only.
_decrypt_FirstKeyOnly(ring, value) ==
    IF ~IsStr(value) THEN Err("TypeError")
    ELSE LET r == FernetDecrypt(ring[1], value.str)
         IN  IF IsOk(r) THEN Ok(Str(r.ok)) ELSE Err("ValueError")

\* _decrypt(value)
_decrypt(ring, value) == TryKeys(ring, 1, value)

\* ------------------------------------------------ EncryptedJSONField
\* target_fields is None or a collection of names.
Names(S) == [names |-> S]
Truthy(tf) == ~IsNone(tf) /\ tf.names # {}

_encrypt_or_decrypt_all(ring, value, encrypt) ==
    IF encrypt THEN _encrypt(ring, Str(JsonDumps(value)))
    ELSE LET d == _decrypt(ring, value)
         IN  IF IsErr(d) THEN d ELSE JsonLoads(d.ok.str)

RECURSIVE SealLeaves(_, _)
\* Faulty variant: every scalar leaf of a container encrypted on its own.
SealLeaves(ring, value) ==
    IF IsDict(value)
    THEN LET rs == [k \in DOMAIN value.dict |-> SealLeaves(ring, value.dict[k])]
         IN  IF \E k \in DOMAIN rs : IsErr(rs[k]) THEN Err("TypeError")
             ELSE Ok(Dict([k \in DOMAIN rs |-> rs[k].ok]))
    ELSE IF IsList(value)
    THEN LET rs == [i \in DOMAIN value.list |-> SealLeaves(ring, value.list[i])]
         IN  IF \E i \in DOMAIN rs : IsErr(rs[i]) THEN Err("TypeError")
             ELSE Ok(List([i \in DOMAIN rs |-> rs[i].ok]))
    ELSE _encrypt(ring, value)

\* Faulty variant: a container target sealed leaf by leaf instead of as one token.
_encrypt_or_decrypt_target_field_PerLeaf(ring, value, encrypt) ==
    IF (IsDict(value) \/ IsList(value)) /\ encrypt THEN SealLeaves(ring, value)
    ELSE IF IsDict(value) \/ IsList(value)
    THEN _encrypt_or_decrypt_all(ring, value, encrypt)
    ELSE IF encrypt THEN _encrypt(ring, value) ELSE _decrypt(ring, value)

_encrypt_or_decrypt_target_field(ring, value, encrypt) ==
    IF IsDict(value) \/ IsList(value)
    THEN _encrypt_or_decrypt_all(ring, value, encrypt)
    ELSE IF encrypt THEN _encrypt(ring, value) ELSE _decrypt(ring, value)

\* The outcome of a loop over outcomes rs visited in the order `order`: the
\* first exception raised, or else nothing.
FirstErr(rs, order) ==
    LET bad == {i \in 1..Len(order) : IsErr(rs[order[i]])}
    IN  IF bad = {} THEN Ok(None)
        ELSE rs[order[CHOOSE i \in bad : \A j \in bad : i <= j]]

RECURSIVE _encrypt_or_decrypt_value(_, _, _, _)

_encrypt_or_decrypt_dict(ring, tf, value, encrypt) ==
    LET rs == [k \in DOMAIN value.dict |->
                  IF k \in tf.names
                  THEN _encrypt_or_decrypt_target_field(ring, value.dict[k], encrypt)
                  ELSE _encrypt_or_decrypt_value(ring, tf, value.dict[k], encrypt)]
        e  == FirstErr(rs, KeysOf(value.dict))
    IN  IF IsErr(e) THEN e ELSE Ok(Dict([k \in DOMAIN value.dict |-> rs[k].ok]))

\* Faulty variant: the items of a sequence handled as target fields.
_encrypt_or_decrypt_list_AsTargets(ring, tf, value, encrypt) ==
    LET rs == [i \in DOMAIN value.list |->
                  _encrypt_or_decrypt_target_field(ring, value.list[i], encrypt)]
        e  == FirstErr(rs, [i \in DOMAIN value.list |-> i])
    IN  IF IsErr(e) THEN e ELSE Ok(List([i \in DOMAIN value.list |-> rs[i].ok]))

_encrypt_or_decrypt_list(ring, tf, value, encrypt) ==
    LET rs == [i \in DOMAIN value.list |->
                  _encrypt_or_decrypt_value(ring, tf, value.list[i], encrypt)]
        e  == FirstErr(rs, [i \in DOMAIN value.list |-> i])
    IN  IF IsErr(e) THEN e ELSE Ok(List([i \in DOMAIN value.list |-> rs[i].ok]))

\* Faulty variant: sequences returned as they are, not walked.
_encrypt_or_decrypt_value_NoLists(ring, tf, value, encrypt) ==
    IF IsDict(value) THEN _encrypt_or_decrypt_dict(ring, tf, value, encrypt)
    ELSE Ok(value)

_encrypt_or_decrypt_value(ring, tf, value, encrypt) ==
    IF IsDict(value) THEN _encrypt_or_decrypt_dict(ring, tf, value, encrypt)
    ELSE IF IsList(value) THEN _encrypt_or_decrypt_list(ring, tf, value, encrypt)
    ELSE Ok(value)

\* ----------------------------------------------------------- fields
Unbuilt == [cls |-> "unbuilt"]
TextField == [cls |-> "EncryptedTextField"]
JSONField(ea, tf) == [cls |-> "EncryptedJSONField", encrypt_all |-> ea, target_fields |-> tf]

\* Faulty variant: __init__ without the "Must specify either" check.
JSONField__init__NoNeither(ea, tf) ==
    IF Truthy(tf) /\ ea THEN Err("ValueError")
    ELSE Ok(JSONField(ea, tf))

\* EncryptedJSONField.__init__(encrypt_all, target_fields)
JSONField__init__(ea, tf) ==
    IF Truthy(tf) /\ ea THEN Err("ValueError")
    ELSE IF ~Truthy(tf) /\ ~ea THEN Err("ValueError")
    ELSE Ok(JSONField(ea, tf))

\* get_prep_value(value) of either field
get_prep_value(fld, ring, value) ==
    IF fld.cls = "EncryptedTextField" THEN _encrypt(ring, value)
    ELSE IF fld.encrypt_all THEN _encrypt_or_decrypt_all(ring, value, TRUE)
    ELSE _encrypt_or_decrypt_value(ring, fld.target_fields, value, TRUE)

\* get_internal_type(): an encrypt_all field is a text column, which stores
\* the token as it is; a target_fields field is a JSON column, which stores
\* the JSON text of the prepared value.
get_internal_type(fld) ==
    IF fld.cls = "EncryptedTextField" \/ fld.encrypt_all THEN "TextField" ELSE "JSONField"

StoredForm(fld, prepared) ==
    IF get_internal_type(fld) = "TextField" THEN prepared ELSE Str(JsonDumps(prepared))

\* Faulty variant: to_python without the _already_decrypted test.
to_python_NoMarker(fld, ring, marked, value) ==
    IF IsNone(value) \/ ~IsStr(value)
    THEN [out |-> Ok(value), branch |-> "passthrough"]
    ELSE [out |-> IF fld.cls = "EncryptedTextField" THEN _decrypt(ring, value)
                  ELSE IF fld.encrypt_all THEN _encrypt_or_decrypt_all(ring, value, FALSE)
                  ELSE LET j == JsonLoads(value.str)
                       IN  IF IsErr(j) THEN j
                           ELSE _encrypt_or_decrypt_value(ring, fld.target_fields, j.ok, FALSE),
          branch |-> "decrypt"]

\* to_python(value) of either field; `marked` is hasattr(self,
\* "_already_decrypted").  branch tells which return statement was taken.
to_python(fld, ring, marked, value) ==
    IF IsNone(value) \/ ~IsStr(value) \/ marked
    THEN [out |-> Ok(value), branch |-> "passthrough"]
    ELSE [out |-> IF fld.cls = "EncryptedTextField" THEN _decrypt(ring, value)
                  ELSE IF fld.encrypt_all THEN _encrypt_or_decrypt_all(ring, value, FALSE)
                  ELSE LET j == JsonLoads(value.str)
                       IN  IF IsErr(j) THEN j
                           ELSE _encrypt_or_decrypt_value(ring, fld.target_fields, j.ok, FALSE),
          branch |-> "decrypt"]

\* from_db_value(value, expression, connection)
from_db_value(fld, ring, marked, value) == to_python(fld, ring, marked, value)

\* ------------------------------------------------------------ state
VARIABLES
    v,          \* the plaintext value of the model instance's attribute
    args,       \* the arguments the field's constructor was called with
    field,      \* the field instance: Unbuilt, its attributes, or the error __init__ raised
    ring,       \* fernet_keys of the running process
    marked,     \* hasattr(field, "_already_decrypted")
    prepared,   \* what get_prep_value returned or raised on the last save
    db,         \* the column of the row: None (NULL) or the stored string
    pc,         \* per thread: where it is inside clean()
    call,       \* the last to_python invocation, of any thread
    ret,        \* how the last operation that ended, of any thread, ended
    sealRing,   \* the key ring of the process that saved the row
    rotations,  \* how many times the keys were rotated
    tampered,   \* whether the stored string was changed outside the field
    leaked      \* whether an exception left clean() with the marker still set

vars == <<v, args, field, ring, marked, prepared, db, pc, call, ret,
          sealRing, rotations, tampered, leaked>>

Threads == 1..MaxThreads

NotYet == [pending |-> "nothing yet"]
Idle   == [at |-> "idle"]
InSuper == [at |-> "super"]
AtDel(x) == [at |-> "del", return_value |-> x]

\* -------------------------------------------------------- the inputs
Scalars == {None, Bool(TRUE), Num(1), Str(<<"x">>)}

One(k, a) == [x \in {k} |-> a]
Two(k, a, l, b) == [x \in {k, l} |-> IF x = k THEN a ELSE b]

\* One more level around a: as the only or the first element of a sequence,
\* as the value of a mapping entry, alone or beside a string entry.
Wrap(a) ==
    { List(<<a>>), List(<<a, Str(<<"y">>)>>),
      Dict(One(<<"s">>, a)), Dict(One(<<"p">>, a)),
      Dict(Two(<<"s">>, a, <<"p">>, Str(<<"y">>))),
      Dict(Two(<<"p">>, a, <<"s">>, Str(<<"y">>))) }

RECURSIVE Values(_)
Values(d) == IF d = 0 THEN Scalars
             ELSE LET S == Values(d - 1) IN S \cup UNION {Wrap(a) : a \in S}

TargetFieldsArgs == {None, Names({}), Names({<<"s">>}), Names({<<"s">>, <<"p">>})}

KeyName(n) == "k" \o ToString(n)

InitCommon ==
    /\ ring = <<KeyName(1)>>
    /\ marked = FALSE
    /\ prepared = NotYet
    /\ pc = [t \in Threads |-> Idle]
    /\ call = NotYet
    /\ ret = NotYet
    /\ sealRing = <<>>
    /\ rotations = 0
    /\ tampered = FALSE
    /\ leaked = FALSE

\* ------------------------------------------------------- operations

\* EncryptedTextField(): models.TextField's constructor takes no policy.
ConstructText ==
    /\ field = Unbuilt
    /\ field' = TextField
    /\ args' = [cls |-> "EncryptedTextField"]
    /\ UNCHANGED <<v, ring, marked, prepared, db, pc, call, ret,
                   sealRing, rotations, tampered, leaked>>

\* EncryptedJSONField(encrypt_all=ea, target_fields=tf)
ConstructJSON ==
    /\ field = Unbuilt
    /\ \E ea \in BOOLEAN, tf \in TargetFieldsArgs :
          /\ args' = [cls |-> "EncryptedJSONField", encrypt_all |-> ea, target_fields |-> tf]
          /\ field' = LET r == JSONField__init__(ea, tf) IN IF IsOk(r) THEN r.ok ELSE r
    /\ UNCHANGED <<v, ring, marked, prepared, db, pc, call, ret,
                   sealRing, rotations, tampered, leaked>>

Built == field # Unbuilt /\ ~IsErr(field)

\* Model.save(): get_prep_value(v), and the column stores what it returned.
Save ==
    /\ Built
    /\ prepared = NotYet
    /\ \A t \in Threads : pc[t] = Idle
    /\ prepared' = get_prep_value(field, ring, v)
    /\ db' = IF IsOk(prepared') THEN StoredForm(field, prepared'.ok) ELSE db
    /\ sealRing' = ring
    /\ UNCHANGED <<v, args, field, ring, marked, pc, call, ret,
                   rotations, tampered, leaked>>

\* from_db_value(db) on thread t
FromDb(t) ==
    /\ Built
    /\ pc[t] = Idle
    /\ LET r == from_db_value(field, ring, marked, db)
       IN  /\ call' = [arg |-> db, marked |-> marked, ring |-> ring, res |-> r]
           /\ ret' = [op |-> "from_db_value", arg |-> db,
                      quiet |-> \A u \in Threads : pc[u] = Idle, out |-> r.out]
    /\ UNCHANGED <<v, args, field, ring, marked, prepared, db, pc,
                   sealRing, rotations, tampered, leaked>>

\* Reading the saved row back.
Load ==
    /\ IsOk(prepared)
    /\ \E t \in Threads : FromDb(t)

\* How a clean(v) ended.
CleanRet(out) == [op |-> "clean", arg |-> v, quiet |-> FALSE, out |-> out]

\* clean(), line 1: self._already_decrypted = True
CleanSet(t) ==
    /\ Built
    /\ pc[t] = Idle
    /\ marked' = TRUE
    /\ pc' = [pc EXCEPT ![t] = InSuper]
    /\ UNCHANGED <<v, args, field, ring, prepared, db, call, ret,
                   sealRing, rotations, tampered, leaked>>

\* clean(), line 2: super().clean(value, model_instance), which is
\* value = self.to_python(value), then validate and run_validators, either
\* of which may raise ValidationError.  An exception leaves clean() here.
CleanSuper(t) ==
    /\ pc[t] = InSuper
    /\ LET r == to_python(field, ring, marked, v)
       IN  /\ call' = [arg |-> v, marked |-> marked, ring |-> ring, res |-> r]
           /\ \/ /\ IsErr(r.out)
                 /\ pc' = [pc EXCEPT ![t] = Idle]
                 /\ ret' = CleanRet(r.out)
                 /\ leaked' = (leaked \/ marked)
              \/ /\ IsOk(r.out)
                 /\ pc' = [pc EXCEPT ![t] = Idle]
                 /\ ret' = CleanRet(Err("ValidationError"))
                 /\ leaked' = (leaked \/ marked)
              \/ /\ IsOk(r.out)
                 /\ pc' = [pc EXCEPT ![t] = AtDel(r.out.ok)]
                 /\ UNCHANGED <<ret, leaked>>
    /\ UNCHANGED <<v, args, field, ring, marked, prepared, db,
                   sealRing, rotations, tampered>>

\* clean(), lines 3 and 4: del self._already_decrypted; return return_value
CleanDel(t) ==
    /\ pc[t].at = "del"
    /\ pc' = [pc EXCEPT ![t] = Idle]
    /\ IF marked
       THEN /\ marked' = FALSE
            /\ ret' = CleanRet(Ok(pc[t].return_value))
       ELSE /\ marked' = marked
            /\ ret' = CleanRet(Err("AttributeError"))
    /\ UNCHANGED <<v, args, field, ring, prepared, db, call,
                   sealRing, rotations, tampered, leaked>>

\* ------------------------------------- the seal / unseal specification
Init ==
    /\ InitCommon
    /\ v \in Values(MaxDepth)
    /\ args = NotYet
    /\ field = Unbuilt
    /\ db = None

Next == ConstructText \/ ConstructJSON \/ Save \/ Load

Spec == Init /\ [][Next]_vars

\* ------------------------------------------ positions in a value
\* A path is a sequence of steps, [key |-> k] into a mapping or [idx |-> i]
\* into a sequence.
RECURSIVE At(_, _)
At(a, p) ==
    IF p = <<>> THEN a
    ELSE IF "key" \in DOMAIN p[1] THEN At(a.dict[p[1].key], Tail(p))
    ELSE At(a.list[p[1].idx], Tail(p))

\* The entries whose key is in S and that are reached through mappings keyed
\* by other keys and through sequences.
RECURSIVE TargetPaths(_, _)
TargetPaths(S, a) ==
    IF IsDict(a)
    THEN UNION { IF k \in S THEN { <<[key |-> k]>> }
                 ELSE { <<[key |-> k]>> \o p : p \in TargetPaths(S, a.dict[k]) }
                 : k \in DOMAIN a.dict }
    ELSE IF IsList(a)
    THEN UNION { { <<[idx |-> i]>> \o p : p \in TargetPaths(S, a.list[i]) }
                 : i \in DOMAIN a.list }
    ELSE {}

IsContainer(a) == IsDict(a) \/ IsList(a)
IsToken(a) == IsStr(a) /\ Len(a.str) >= 2 /\ a.str[1] = "gA"
Prefixes(p) == {SubSeq(p, 1, n) : n \in 0..(Len(p) - 1)}

\* No reached target entry holds a scalar that is not a string.
Sealable(S, a) == \A p \in TargetPaths(S, a) : IsContainer(At(a, p)) \/ IsStr(At(a, p))
AllTargetsStr(S, a) == \A p \in TargetPaths(S, a) : IsStr(At(a, p))

IsJSON == Built /\ field.cls = "EncryptedJSONField"
IsTargetFields == IsJSON /\ ~field.encrypt_all
S_ == field.target_fields.names
Loaded == ret # NotYet /\ ret.op = "from_db_value"

\* ------------------------------------------------------------ claims

\* C1 (as stated): for every Structured Value and every valid policy, saving
\* succeeds and reading the stored string back yields the value that was
\* saved, also when a target field holds a container or a non-string scalar.
C1_RoundTrip ==
    IsJSON =>
        /\ prepared # NotYet => IsOk(prepared)
        /\ Loaded => ret.out = Ok(v)

\* The part of C1 the code does satisfy: encrypt_all round-trips every value,
\* and target_fields round-trips the values whose reached targets are strings.
RoundTripWhereSupported ==
    (IsJSON /\ Loaded /\ (field.encrypt_all \/ AllTargetsStr(S_, v)))
        => ret.out = Ok(v)

\* C4: __init__ raises ValueError exactly when encrypt_all and a non-empty
\* target_fields are both given or neither is; otherwise the field holds the
\* two arguments as passed, in every later state.
C4_PolicyValidation ==
    (args # NotYet /\ args.cls = "EncryptedJSONField") =>
        LET ea == args.encrypt_all
            tf == args.target_fields
            nonEmpty == tf # None /\ tf.names # {}
        IN  /\ IsErr(field) <=> ((ea /\ nonEmpty) \/ (~ea /\ ~nonEmpty))
            /\ IsErr(field) => field = Err("ValueError")
            /\ ~IsErr(field) => /\ field.encrypt_all = ea
                                /\ field.target_fields = tf

C4_Witness ==
    /\ IsJSON /\ Loaded
    /\ args.encrypt_all /\ args.target_fields = Names({})

\* What seal may change and what it must keep: b is a with the entries whose
\* key is in S replaced by tokens and everything else as it was.
RECURSIVE Frame(_, _, _)
Frame(S, a, b) ==
    IF IsDict(a)
    THEN /\ IsDict(b)
         /\ DOMAIN b.dict = DOMAIN a.dict
         /\ \A k \in DOMAIN a.dict :
               IF k \in S THEN IsToken(b.dict[k]) ELSE Frame(S, a.dict[k], b.dict[k])
    ELSE IF IsList(a)
    THEN /\ IsList(b)
         /\ Len(b.list) = Len(a.list)
         /\ \A i \in DOMAIN a.list : Frame(S, a.list[i], b.list[i])
    ELSE b = a

\* C5: under target_fields, what get_prep_value returns is the input with
\* only the entries whose key is a target replaced by a token: every other
\* key, scalar, sequence length and order is kept; and when the targets hold
\* strings, reading the stored string back recovers the input exactly.
C5_TargetFieldIsolation ==
    IsTargetFields =>
        /\ IsOk(prepared) => Frame(S_, v, prepared.ok)
        /\ (Loaded /\ AllTargetsStr(S_, v)) => ret.out = Ok(v)

C5_Witness ==
    /\ IsTargetFields /\ S_ = {<<"s">>}
    /\ v = Dict(Two(<<"s">>, Str(<<"x">>), <<"p">>, Str(<<"y">>)))
    /\ prepared = Ok(Dict(Two(<<"s">>, Str(<<"gA", "k1", "x">>), <<"p">>, Str(<<"y">>))))
    /\ Loaded /\ ret.out = Ok(v)

\* C6: under target_fields, every entry whose key is a target and that is
\* reached through non-target keys and through sequences, at any depth, is
\* stored as a token, and every mapping and sequence on the way to it stays
\* a plain container of its kind.
C6_NestedTargets ==
    (IsTargetFields /\ prepared # NotYet /\ Sealable(S_, v)) =>
        /\ IsOk(prepared)
        /\ \A p \in TargetPaths(S_, v) :
              /\ \A q \in Prefixes(p) :
                    /\ IsDict(At(v, q)) => IsDict(At(prepared.ok, q))
                    /\ IsList(At(v, q)) => IsList(At(prepared.ok, q))
              /\ IsToken(At(prepared.ok, p))
              /\ IsOk(FernetDecrypt(sealRing[1], At(prepared.ok, p).str))

C6_Witness ==
    /\ IsTargetFields /\ IsOk(prepared)
    /\ \E p \in TargetPaths(S_, v) :
          /\ Len(p) = 3
          /\ "idx" \in DOMAIN p[1]
          /\ "idx" \in DOMAIN p[2]

\* a's shape with every scalar leaf replaced by a token of its own.
RECURSIVE LeavesSealed(_, _)
LeavesSealed(a, b) ==
    IF IsDict(a)
    THEN /\ IsDict(b)
         /\ DOMAIN b.dict = DOMAIN a.dict
         /\ \A k \in DOMAIN a.dict : LeavesSealed(a.dict[k], b.dict[k])
    ELSE IF IsList(a)
    THEN /\ IsList(b)
         /\ Len(b.list) = Len(a.list)
         /\ \A i \in DOMAIN a.list : LeavesSealed(a.list[i], b.list[i])
    ELSE IsToken(b)

\* C8 (as stated): a target entry whose value is a mapping or a sequence
\* keeps its shape when sealed, each scalar leaf inside it replaced by its
\* own token.
C8_Original ==
    (IsTargetFields /\ IsOk(prepared)) =>
        \A p \in TargetPaths(S_, v) : LeavesSealed(At(v, p), At(prepared.ok, p))

\* C8 (amended): a target entry is replaced by exactly one token: the
\* encryption, under the first key, of the JSON text of the whole value when
\* it is a mapping or a sequence, and of the string itself when it is a string.
C8_Amended ==
    (IsTargetFields /\ IsOk(prepared)) =>
        \A p \in TargetPaths(S_, v) :
            LET a == At(v, p)
                b == At(prepared.ok, p)
            IN  /\ IsToken(b)
                /\ IsContainer(a) => FernetDecrypt(sealRing[1], b.str) = Ok(JsonDumps(a))
                /\ ~IsContainer(a) => IsStr(a) /\ FernetDecrypt(sealRing[1], b.str) = Ok(a.str)

C8_Witness ==
    /\ IsTargetFields /\ IsOk(prepared)
    /\ \E p \in TargetPaths(S_, v) : IsDict(At(v, p)) /\ At(v, p).dict # EmptyDict

\* ------------------------------------------- the key ring over time
\* settings.MODEL_ENCRYPTION_KEYS gets a new first key and the process is
\* restarted: `keys` and `fernet_keys` are cached per field instance, so a
\* running process never sees a change of the setting.
Rotate ==
    /\ Built
    /\ rotations < MaxRotations
    /\ \A t \in Threads : pc[t] = Idle
    /\ ring' = <<KeyName(rotations + 2)>> \o ring
    /\ rotations' = rotations + 1
    /\ marked' = FALSE
    /\ UNCHANGED <<v, args, field, prepared, db, pc, call, ret,
                   sealRing, tampered, leaked>>

\* The oldest key is taken out of the setting, and the process restarted.
Retire ==
    /\ Built
    /\ Len(ring) > 1
    /\ \A t \in Threads : pc[t] = Idle
    /\ ring' = SubSeq(ring, 1, Len(ring) - 1)
    /\ marked' = FALSE
    /\ UNCHANGED <<v, args, field, prepared, db, pc, call, ret,
                   sealRing, rotations, tampered, leaked>>

\* What a ciphertext position may hold after the row was changed outside the
\* field: the token with a broken signature, a string that is no token, or
\* (in a JSON column) a number, a null or a sequence.
Junk(mode, x) ==
    IF mode = "mac"
    THEN IF IsToken(x) THEN Str(<<"gA", "??">> \o SubSeq(x.str, 3, Len(x.str))) ELSE x
    ELSE IF mode = "plain" THEN Str(<<"x">>)
    ELSE IF mode = "num" THEN Num(1)
    ELSE IF mode = "null" THEN None
    ELSE List(<<x>>)

RECURSIVE ReplaceTargets(_, _, _)
ReplaceTargets(S, a, mode) ==
    IF IsDict(a)
    THEN Dict([k \in DOMAIN a.dict |->
                 IF k \in S THEN Junk(mode, a.dict[k])
                 ELSE ReplaceTargets(S, a.dict[k], mode)])
    ELSE IF IsList(a)
    THEN List([i \in DOMAIN a.list |-> ReplaceTargets(S, a.list[i], mode)])
    ELSE a

TextModes == {"mac", "plain"}
JSONModes == {"mac", "plain", "num", "null", "list"}

\* The stored row is changed outside the field.
Tamper ==
    /\ IsOk(prepared)
    /\ ~tampered
    /\ \E mode \in JSONModes :
          /\ get_internal_type(field) = "TextField" => mode \in TextModes
          /\ db' = IF get_internal_type(field) = "TextField" THEN Junk(mode, db)
                   ELSE Str(JsonDumps(ReplaceTargets(field.target_fields.names,
                                                     prepared.ok, mode)))
    /\ db' # db
    /\ tampered' = TRUE
    /\ UNCHANGED <<v, args, field, ring, marked, prepared, pc, call, ret,
                   sealRing, rotations, leaked>>

ArgsOf(fld) ==
    IF fld.cls = "EncryptedTextField" THEN [cls |-> "EncryptedTextField"]
    ELSE [cls |-> fld.cls, encrypt_all |-> fld.encrypt_all,
          target_fields |-> fld.target_fields]

Fields == {TextField, JSONField(TRUE, None), JSONField(FALSE, Names({<<"s">>}))}

\* The values each field stores and reads back as they were.
Storable(fld, a) ==
    IF fld.cls = "EncryptedTextField" THEN IsStr(a)
    ELSE fld.encrypt_all \/ AllTargetsStr(fld.target_fields.names, a)

\* The values of one level, and two in which the target lies deeper.
RingValues ==
    Values(1) \cup { Dict(One(<<"p">>, Dict(One(<<"s">>, Str(<<"x">>))))),
                     List(<<List(<<Dict(One(<<"s">>, Str(<<"x">>)))>>)>>) }

InitRing ==
    /\ InitCommon
    /\ field \in Fields
    /\ v \in {a \in RingValues : Storable(field, a)}
    /\ args = ArgsOf(field)
    /\ db = None

NextRing == Save \/ Rotate \/ Retire \/ Tamper \/ Load

SpecRing == InitRing /\ [][NextRing]_vars

\* --------------------------------------------- clean() and the readers
CleanValues == {None, Str(<<"x">>), Dict(One(<<"s">>, Str(<<"x">>))), List(<<Str(<<"x">>)>>)}

\* A saved row (or a NULL column) and the threads of one process.
InitClean ==
    /\ ring = <<KeyName(1)>>
    /\ marked = FALSE
    /\ pc = [t \in Threads |-> Idle]
    /\ call = NotYet
    /\ ret = NotYet
    /\ rotations = 0
    /\ tampered = FALSE
    /\ leaked = FALSE
    /\ field \in Fields
    /\ v \in {a \in CleanValues : Storable(field, a)}
    /\ args = ArgsOf(field)
    /\ prepared = get_prep_value(field, ring, v)
    /\ sealRing = ring
    /\ db \in {StoredForm(field, prepared.ok), None}

NextClean == \E t \in Threads : CleanSet(t) \/ CleanSuper(t) \/ CleanDel(t) \/ FromDb(t)

SpecClean == InitClean /\ [][NextClean]_vars

\* ------------------------------------------------------------ claims

Range(q) == {q[i] : i \in DOMAIN q}

\* The tokens of a prepared value.
TokensOf(fld, w) ==
    IF get_internal_type(fld) = "TextField" THEN {w}
    ELSE {At(w, p) : p \in TargetPaths(fld.target_fields.names, w)}

\* C2: every token is made with the first key of the ring of the process
\* that saved it, and a row that was saved while k was the first key reads
\* back as the value that was saved under every later ring that holds k.
C2_KeyRotation ==
    /\ IsOk(prepared) =>
          \A tok \in TokensOf(field, prepared.ok) :
              IsToken(tok) /\ tok.str[2] = sealRing[1]
    /\ (Loaded /\ ~tampered /\ sealRing[1] \in Range(call.ring)) =>
          ret.out = Ok(v)

C2_Witness ==
    /\ Loaded /\ ~tampered
    /\ Len(call.ring) = 3
    /\ sealRing = <<"k1">>
    /\ call.ring[3] = "k1"
    /\ ret.out = Ok(v)

\* No key of the ring accepts x.
Rejected(keys, x) ==
    ~IsStr(x) \/ \A i \in DOMAIN keys : IsErr(FernetDecrypt(keys[i], x.str))

\* Some position that seal encrypts holds something no key accepts.
HoldsRejected(fld, keys, stored) ==
    IF get_internal_type(fld) = "TextField" THEN Rejected(keys, stored)
    ELSE LET j == JsonLoads(stored.str)
         IN  /\ IsOk(j)
             /\ \E p \in TargetPaths(fld.target_fields.names, j.ok) : Rejected(keys, At(j.ok, p))

\* C3 (as stated): reading a row in which a ciphertext position holds
\* something no key accepts always raises the ValueError of _decrypt, never
\* another exception, and never returns a value.
C3_AllKeysFail ==
    (Loaded /\ IsStr(call.arg) /\ HoldsRejected(field, call.ring, call.arg))
        => ret.out = Err("ValueError")

\* The part of C3 the code does satisfy: when every ciphertext position holds
\* a string, a rejected one raises the ValueError of _decrypt.
AllKeysFailOnStrings ==
    (/\ Loaded /\ IsStr(call.arg)
     /\ HoldsRejected(field, call.ring, call.arg)
     /\ get_internal_type(field) = "JSONField" =>
           AllTargetsStr(S_, JsonLoads(call.arg.str).ok))
        => ret.out = Err("ValueError")

C9_PerOperationMarker ==
    (~leaked /\ ret # NotYet) =>
        /\ (ret.op = "from_db_value" /\ IsStr(ret.arg)) => ret.out = Ok(v)
        /\ ret.op = "clean" => IsOk(ret.out)

\* C10 (as stated): when no clean() is in progress the marker is absent,
\* also after a clean() in which validation raised, so a from_db_value of the
\* stored string made then returns the decrypted value.
C10_MarkerCleared ==
    /\ (\A t \in Threads : pc[t] = Idle) => ~marked
    /\ (ret # NotYet /\ ret.op = "from_db_value" /\ ret.quiet /\ IsStr(ret.arg))
          => ret.out = Ok(v)

====
